---- MODULE Spec2Model ----
(***************************************************************************)
(* Learning nodes of the multi-target regression tree                      *)
(* (skmultiflow/trees/nodes/_isouptr_nodes.py): the four node classes      *)
(*   ActiveLearningNodePerceptronMultiTarget    ("ActivePerceptron")       *)
(*   InactiveLearningNodePerceptronMultiTarget  ("InactivePerceptron")     *)
(*   ActiveLearningNodeAdaptiveMultiTarget      ("ActiveAdaptive")         *)
(*   InactiveLearningNodeAdaptiveMultiTarget    ("InactiveAdaptive")       *)
(* with their constructors, learn_from_instance, update_weights,           *)
(* normalize_perceptron_weights, predict and total_weight.                 *)
(*                                                                         *)
(* Numbers.  A float is modelled by an exact rational <<n, d>> in lowest   *)
(* terms with d > 0; the IEEE value "not a number" that numpy produces for *)
(* 0.0 / 0.0 is <<0, 0>> and propagates through every operation.           *)
(* Arrays.  A 1-d ndarray is a sequence of numbers, a 2-d ndarray a        *)
(* sequence of rows.  ndarrays are mutable objects: the weight matrices    *)
(* live in a heap and a node holds the address of its matrix, so that two  *)
(* nodes holding the same address share one matrix.                        *)
(***************************************************************************)
EXTENDS Integers, Sequences, FiniteSets, TLC

\* ------------------------------------------------------------------ bounds
\* nodes constructed, learn_from_instance calls made on one node, and
\* update_weights invocations made in all
MaxNodes == 2
MaxCalls == 2
MaxUpdates == 2

\* ------------------------------------------------------- float arithmetic
RECURSIVE Gcd(_, _)
Gcd(a, b) == IF b = 0 THEN a ELSE Gcd(b, a % b)

IAbs(i) == IF i < 0 THEN -i ELSE i

NaN == <<0, 0>>
IsNaN(r) == r[2] = 0

\* the float n/d (d > 0), in lowest terms
Rat(n, d) == LET g == Gcd(IAbs(n), d) IN <<n \div g, d \div g>>

Zero == <<0, 1>>
One == <<1, 1>>

RAdd(a, b) == IF IsNaN(a) \/ IsNaN(b) THEN NaN
              ELSE LET g == Gcd(a[2], b[2])
                   IN Rat(a[1] * (b[2] \div g) + b[1] * (a[2] \div g),
                          (a[2] \div g) * b[2])
RNeg(a) == IF IsNaN(a) THEN NaN ELSE <<-a[1], a[2]>>
RSub(a, b) == RAdd(a, RNeg(b))
RMul(a, b) == IF IsNaN(a) \/ IsNaN(b) THEN NaN
              ELSE LET g1 == Gcd(IAbs(a[1]), b[2])
                       g2 == Gcd(IAbs(b[1]), a[2])
                   IN <<(a[1] \div g1) * (b[1] \div g2),
                        (a[2] \div g2) * (b[2] \div g1)>>
RAbs(a) == IF IsNaN(a) THEN NaN ELSE <<IAbs(a[1]), a[2]>>
\* numpy float division: 0.0 / 0.0 and anything involving nan is nan (with a
\* RuntimeWarning, not an exception).  A nonzero number is never divided by
\* zero by the methods modelled here (the divisors are a row's absolute sum,
\* 1 + count * decay, the count after an instance of weight >= 1, and the
\* standard deviations), so +-inf is not represented.
RDiv(a, b) == IF IsNaN(a) \/ IsNaN(b) \/ b[1] = 0 THEN NaN
              ELSE IF b[1] > 0 THEN RMul(a, <<b[2], b[1]>>)
              ELSE RMul(a, <<-b[2], -b[1]>>)
\* int(x) for a float x: truncation toward zero
Trunc(a) == IF a[1] >= 0 THEN a[1] \div a[2] ELSE -((-a[1]) \div a[2])

\* ------------------------------------------------------------- 1-d arrays
RECURSIVE VSum(_)
VSum(v) == IF v = <<>> THEN Zero ELSE RAdd(v[1], VSum(Tail(v)))

VAbs(v) == [i \in 1..Len(v) |-> RAbs(v[i])]
VScale(c, v) == [i \in 1..Len(v) |-> RMul(c, v[i])]
VDivScalar(v, c) == [i \in 1..Len(v) |-> RDiv(v[i], c)]

\* numpy broadcasting of two 1-d shapes
Broadcastable(la, lb) == la = lb \/ la = 1 \/ lb = 1
BLen(la, lb) == IF la >= lb THEN la ELSE lb
BAt(v, i) == IF Len(v) = 1 THEN v[1] ELSE v[i]
\* a (op) b elementwise with broadcasting; only used when Broadcastable
BAdd(a, b) == [i \in 1..BLen(Len(a), Len(b)) |-> RAdd(BAt(a, i), BAt(b, i))]
BSub(a, b) == [i \in 1..BLen(Len(a), Len(b)) |-> RSub(BAt(a, i), BAt(b, i))]
BMul(a, b) == [i \in 1..BLen(Len(a), Len(b)) |-> RMul(BAt(a, i), BAt(b, i))]
\* the in-place a += b of an ndarray a is legal when b broadcasts to a's shape
InPlaceOk(la, lb) == lb = la \/ lb = 1

RECURSIVE Dot(_, _)
Dot(u, v) == IF u = <<>> THEN Zero
             ELSE RAdd(RMul(u[1], v[1]), Dot(Tail(u), Tail(v)))
\* np.matmul(M, x) of a 2-d M with a 1-d x of matching length
MatVec(M, x) == [i \in 1..Len(M) |-> Dot(M[i], x)]

\* ------------------------------------------------- program constants
\* the fading factor of the faded errors, 0.95
FadingFactor == Rat(19, 20)

None == 0

Classes == {"ActivePerceptron", "InactivePerceptron",
            "ActiveAdaptive", "InactiveAdaptive"}
IsActive(cls) == cls \in {"ActivePerceptron", "ActiveAdaptive"}
IsAdaptive(cls) == cls \in {"ActiveAdaptive", "InactiveAdaptive"}

\* ------------------------------------------------------------ the inputs
\* raw feature vectors, raw target vectors and instance weights fed to nodes
\* (instances of one or two features and of one or two targets)
Instances == {[X |-> <<Rat(2, 1)>>, y |-> <<Rat(1, 1)>>],
              [X |-> <<Rat(2, 1)>>, y |-> <<Rat(3, 1)>>],
              [X |-> <<Rat(1, 1)>>, y |-> <<Rat(3, 1)>>],
              [X |-> <<Rat(2, 1), Rat(1, 1)>>, y |-> <<Rat(3, 1)>>],
              [X |-> <<Rat(2, 1)>>, y |-> <<Rat(1, 1), Rat(3, 1)>>]}
\* the normalized samples predict is called with
Samples == {<<One, One>>, <<Zero, One, One>>}
Weights == {Rat(1, 2), Rat(3, 2), Rat(2, 1)}
Seeds == {1, 2}

\* the statistics dictionaries a node is constructed with: {} or the
\* statistics of one observed instance
EmptyStats == [keys |-> {}, c |-> Zero, s1 |-> <<>>, s2 |-> <<>>]
InitialStats == {EmptyStats,
                 [keys |-> {0, 1, 2}, c |-> One,
                  s1 |-> <<Rat(3, 1)>>, s2 |-> <<Rat(9, 1)>>]}

\* the regressor contexts (rht): the learning-rate schedule, the nominal
\* attribute indices (nominal_none: nominal_attributes is None) and the
\* running mean / standard deviation its normalization uses
Rhts == {[learning_ratio_const |-> TRUE, learning_ratio_perceptron |-> Rat(1, 2),
          learning_ratio_decay |-> One, nominal_none |-> TRUE,
          nominal_attributes |-> {},
          x_mean |-> One, x_sd |-> One, y_mean |-> One, y_sd |-> Rat(2, 1)],
         [learning_ratio_const |-> FALSE, learning_ratio_perceptron |-> One,
          learning_ratio_decay |-> One, nominal_none |-> FALSE,
          nominal_attributes |-> {0},
          x_mean |-> One, x_sd |-> One, y_mean |-> One, y_sd |-> Rat(2, 1)]}

\* ------------------------------------------------ external collaborators
\* rht.normalize_sample: z-score of every feature, bias term 1 appended
normalize_sample(rht, X) ==
    Append([i \in 1..Len(X) |-> RDiv(RSub(X[i], rht.x_mean), rht.x_sd)], One)

\* rht.normalize_target_value: z-score of every target
normalize_target_value(rht, y) ==
    [i \in 1..Len(y) |-> RDiv(RSub(y[i], rht.y_mean), rht.y_sd)]

\* get_dimensions of a 1-d array: (1, size)
get_dimensions(v) == <<1, Len(v)>>

\* The generator of seed s yields a fixed stream of values of [-1, 1); a
\* RandomState is the seed, the position in the stream and the number of
\* calls made on it.
Stream(seed) ==
    IF seed = 1
    THEN <<Rat(1, 2), Rat(1, 2), Rat(-1, 4), Rat(3, 4), Rat(1, 2), Rat(-1, 2)>>
    ELSE <<Rat(-1, 2), Rat(1, 4), Rat(3, 4), Rat(1, 2), Rat(-3, 4), Rat(1, 4)>>

check_random_state(seed) == [seed |-> seed, pos |-> 0, calls |-> 0]

\* random_state.uniform(-1.0, 1.0, (rows, cols)): the matrix drawn, row-major
uniform(rs, rows, cols) ==
    [i \in 1..rows |-> [j \in 1..cols |->
        LET s == Stream(rs.seed)
        IN s[((rs.pos + (i - 1) * cols + (j - 1)) % Len(s)) + 1]]]
advance(rs, rows, cols) ==
    [rs EXCEPT !.pos = @ + rows * cols, !.calls = @ + 1]

\* an attribute observer: its kind and the number of update calls it received
NewObserver(kind) == [kind |-> kind, n |-> 0]

\* ----------------------------------------------------------------- state
VARIABLES
    nodes,  \* node id -> node object (cls = "none": not constructed)
    heap,   \* address -> ndarray holding a weight matrix: w, the matrix, and
            \* raw, the absolute sum of each row at its last normalization
    regressor, \* the regressor context (rht) passed to learn_from_instance
    hist,   \* node id -> the instances it was given: <<len X, len y, weight>>
    call    \* the last call made and how it ended

vars == <<nodes, heap, regressor, hist, call>>

NodeIds == 1..MaxNodes

\* (initial_stats and parent keep the constructor's arguments)
NoNode == [cls |-> "none", initial_stats |-> EmptyStats, stats |-> EmptyStats,
           perceptron_weight |-> None,
           random_state |-> check_random_state(0),
           fMAE_M |-> <<Zero>>, fMAE_P |-> <<Zero>>,
           attribute_observers |-> <<>>, parent |-> None]

\* A running call: the node it runs on, the heap, the exception raised so far
\* ("none": none), and a trace: the number of update_weights invocations and
\* the learning ratios they were given.
Frame(self, h) == [self |-> self, heap |-> h, err |-> "none",
                   updates |-> 0, rates |-> {}]
Raise(m, e) == [m EXCEPT !.err = e]

\* ------------------------------------------------------- the node methods
\* One step of the row loop of normalize_perceptron_weights: row i of the
\* matrix is divided in place by the sum of its absolute values.
NormalizeRow(arr, i) ==
    LET sum_w == VSum(VAbs(arr.w[i]))
    IN [w |-> [arr.w EXCEPT ![i] = VDivScalar(@, sum_w)],
        raw |-> [arr.raw EXCEPT ![i] = sum_w]]

RECURSIVE NormalizeRows(_, _)
NormalizeRows(arr, i) ==
    IF i > Len(arr.w) THEN arr ELSE NormalizeRows(NormalizeRow(arr, i), i + 1)

Active_normalize_perceptron_weights(m) ==
    LET a == m.self.perceptron_weight
    IN [m EXCEPT !.heap[a] = NormalizeRows(@, 1)]

Inactive_normalize_perceptron_weights(m) ==
    LET a == m.self.perceptron_weight
    IN [m EXCEPT !.heap[a] = NormalizeRows(@, 1)]

\* np.matmul(self.perceptron_weight, X): numpy raises ValueError when the
\* first operand is None (a 0-d operand) or when the inner dimensions differ.
Matmul(m, X) ==
    LET a == m.self.perceptron_weight
    IN IF a = None THEN [err |-> "ValueError", val |-> <<>>]
       ELSE IF Len(m.heap[a].w[1]) # Len(X)
            THEN [err |-> "ValueError", val |-> <<>>]
            ELSE [err |-> "none", val |-> MatVec(m.heap[a].w, X)]

\* (variant: a node without a matrix predicts zeros)
Active_predict_zeros(m, X) ==
    IF m.self.perceptron_weight = None THEN [err |-> "none", val |-> <<Zero>>]
    ELSE Matmul(m, X)

Active_predict(m, X) == Matmul(m, X)

Inactive_predict(m, X) == Matmul(m, X)

\* self.perceptron_weight += learning_ratio * matmul(diff[:, None], x[None, :])
\* on the matrix at address a; diff has as many rows as the matrix
AddOuter(arr, learning_ratio, diff, x) ==
    [arr EXCEPT !.w = [i \in 1..Len(@) |-> [j \in 1..Len(@[i]) |->
        RAdd(@[i][j], RMul(learning_ratio, RMul(diff[i], x[j])))]]]

\* (variant: the faded error is accumulated without fading)
Fade_unfaded(f, e) == BAdd(f, e)

\* self.fMAE = 0.95 * self.fMAE + err, with numpy broadcasting (the float
\* 0.0 the constructor sets broadcasts like an array of one element)
Fade(f, e) == BAdd(VScale(FadingFactor, f), e)

ActivePerceptron_update_weights(m0, X, y, learning_ratio, rht) ==
    LET m == [m0 EXCEPT !.updates = @ + 1, !.rates = @ \cup {learning_ratio}]
        normalized_sample == normalize_sample(rht, X)
        normalized_pred == Active_predict(m, normalized_sample)
        normalized_target_value == normalize_target_value(rht, y)
        a == m.self.perceptron_weight
    IN IF normalized_pred.err # "none" THEN Raise(m, normalized_pred.err)
       ELSE IF ~Broadcastable(Len(normalized_target_value), Len(normalized_pred.val))
            THEN Raise(m, "ValueError")
       ELSE LET diff == BSub(normalized_target_value, normalized_pred.val)
            IN IF ~InPlaceOk(Len(m.heap[a].w), Len(diff))
               THEN Raise(m, "ValueError")
               ELSE Active_normalize_perceptron_weights(
                      [m EXCEPT !.heap[a] =
                          AddOuter(@, learning_ratio, diff, normalized_sample)])

InactivePerceptron_update_weights(m0, X, y, learning_ratio, rht) ==
    LET m == [m0 EXCEPT !.updates = @ + 1, !.rates = @ \cup {learning_ratio}]
        normalized_sample == normalize_sample(rht, X)
        normalized_pred == Inactive_predict(m, normalized_sample)
        normalized_target_value == normalize_target_value(rht, y)
        a == m.self.perceptron_weight
    IN IF normalized_pred.err # "none" THEN Raise(m, normalized_pred.err)
       ELSE IF ~Broadcastable(Len(normalized_target_value), Len(normalized_pred.val))
            THEN Raise(m, "ValueError")
       ELSE LET diff == BSub(normalized_target_value, normalized_pred.val)
            IN IF ~InPlaceOk(Len(m.heap[a].w), Len(diff))
               THEN Raise(m, "ValueError")
               ELSE Inactive_normalize_perceptron_weights(
                      [m EXCEPT !.heap[a] =
                          AddOuter(@, learning_ratio, diff, normalized_sample)])

\* The faded errors of an adaptive node, updated after the weights (m1) with
\* the prediction made before them; self._stats[1] / self._stats[0] is the
\* mean predictor.
FadedErrors(m1, rht, normalized_target_value, normalized_pred) ==
    LET errP == VAbs(BSub(normalized_target_value, normalized_pred))
        m2 == [m1 EXCEPT !.self.fMAE_P = Fade(@, errP)]
        mean == normalize_target_value(rht,
                    VDivScalar(m1.self.stats.s1, m1.self.stats.c))
    IN IF ~Broadcastable(Len(m1.self.fMAE_P), Len(errP))
       THEN Raise(m1, "ValueError")
       ELSE IF ~Broadcastable(Len(normalized_target_value), Len(mean))
            THEN Raise(m2, "ValueError")
       ELSE LET errM == VAbs(BSub(normalized_target_value, mean))
            IN IF ~Broadcastable(Len(m2.self.fMAE_M), Len(errM))
               THEN Raise(m2, "ValueError")
               ELSE [m2 EXCEPT !.self.fMAE_M = Fade(@, errM)]

ActiveAdaptive_update_weights(m0, X, y, learning_ratio, rht) ==
    LET m == [m0 EXCEPT !.updates = @ + 1, !.rates = @ \cup {learning_ratio}]
        normalized_sample == normalize_sample(rht, X)
        normalized_pred == Active_predict(m, normalized_sample)
        normalized_target_value == normalize_target_value(rht, y)
        a == m.self.perceptron_weight
    IN IF normalized_pred.err # "none" THEN Raise(m, normalized_pred.err)
       ELSE IF ~Broadcastable(Len(normalized_target_value), Len(normalized_pred.val))
            THEN Raise(m, "ValueError")
       ELSE LET diff == BSub(normalized_target_value, normalized_pred.val)
            IN IF ~InPlaceOk(Len(m.heap[a].w), Len(diff))
               THEN Raise(m, "ValueError")
               ELSE FadedErrors(
                      Active_normalize_perceptron_weights(
                        [m EXCEPT !.heap[a] =
                            AddOuter(@, learning_ratio, diff, normalized_sample)]),
                      rht, normalized_target_value, normalized_pred.val)

InactiveAdaptive_update_weights(m0, X, y, learning_ratio, rht) ==
    LET m == [m0 EXCEPT !.updates = @ + 1, !.rates = @ \cup {learning_ratio}]
        normalized_sample == normalize_sample(rht, X)
        normalized_pred == Inactive_predict(m, normalized_sample)
        normalized_target_value == normalize_target_value(rht, y)
        a == m.self.perceptron_weight
    IN IF normalized_pred.err # "none" THEN Raise(m, normalized_pred.err)
       ELSE IF ~Broadcastable(Len(normalized_target_value), Len(normalized_pred.val))
            THEN Raise(m, "ValueError")
       ELSE LET diff == BSub(normalized_target_value, normalized_pred.val)
            IN IF ~InPlaceOk(Len(m.heap[a].w), Len(diff))
               THEN Raise(m, "ValueError")
               ELSE FadedErrors(
                      Inactive_normalize_perceptron_weights(
                        [m EXCEPT !.heap[a] =
                            AddOuter(@, learning_ratio, diff, normalized_sample)]),
                      rht, normalized_target_value, normalized_pred.val)

\* self.update_weights(...): the method of the node's class
update_weights(m, X, y, learning_ratio, rht) ==
    CASE m.self.cls = "ActivePerceptron" ->
            ActivePerceptron_update_weights(m, X, y, learning_ratio, rht)
      [] m.self.cls = "InactivePerceptron" ->
            InactivePerceptron_update_weights(m, X, y, learning_ratio, rht)
      [] m.self.cls = "ActiveAdaptive" ->
            ActiveAdaptive_update_weights(m, X, y, learning_ratio, rht)
      [] m.self.cls = "InactiveAdaptive" ->
            InactiveAdaptive_update_weights(m, X, y, learning_ratio, rht)

\* (variant: the matrix is created without the bias column)
CreateWeights_unbiased(m, X, y) ==
    LET rows == get_dimensions(y)[2]
        cols == get_dimensions(X)[2]
        arr == [w |-> uniform(m.self.random_state, rows, cols),
                raw |-> [i \in 1..rows |-> Zero]]
    IN [m EXCEPT !.heap = Append(@, arr),
                 !.self.perceptron_weight = Len(m.heap) + 1,
                 !.self.random_state = advance(@, rows, cols)]

\* if self.perceptron_weight is None: the matrix of random weights is
\* created (a new ndarray) with one row per target and one column per
\* feature plus one
CreateWeights(m, X, y) ==
    LET rows == get_dimensions(y)[2]
        cols == get_dimensions(X)[2]
        arr == [w |-> uniform(m.self.random_state, rows, cols + 1),
                raw |-> [i \in 1..rows |-> Zero]]
    IN [m EXCEPT !.heap = Append(@, arr),
                 !.self.perceptron_weight = Len(m.heap) + 1,
                 !.self.random_state = advance(@, rows, cols + 1)]

\* (variant: the count is overwritten by the weight of the instance)
AddCount_overwritten(stats, weight) ==
    [stats EXCEPT !.keys = @ \cup {0}, !.c = weight]

\* try: self._stats[0] += weight / except KeyError: self._stats[0] = weight
AddCount(stats, weight) ==
    IF 0 \in stats.keys THEN [stats EXCEPT !.c = RAdd(@, weight)]
    ELSE [stats EXCEPT !.keys = @ \cup {0}, !.c = weight]

\* try: self._stats[1] += weight * y; self._stats[2] += weight * y * y
\* except KeyError: both are set.  The in-place additions raise ValueError
\* when y does not broadcast to the shape of the stored sum.
AddTargets(m, y, weight) ==
    LET st == m.self.stats
        wy == VScale(weight, y)
        wyy == BMul(wy, y)
        set == [st EXCEPT !.keys = @ \cup {1, 2}, !.s1 = wy, !.s2 = wyy]
    IN IF 1 \notin st.keys THEN [m EXCEPT !.self.stats = set]
       ELSE IF ~InPlaceOk(Len(st.s1), Len(y)) THEN Raise(m, "ValueError")
       ELSE IF 2 \notin st.keys THEN [m EXCEPT !.self.stats = set]
       ELSE IF ~InPlaceOk(Len(st.s2), Len(y))
            THEN Raise([m EXCEPT !.self.stats.s1 = BAdd(@, wy)], "ValueError")
       ELSE [m EXCEPT !.self.stats.s1 = BAdd(@, wy),
                      !.self.stats.s2 = BAdd(@, wyy)]

\* for i in range(k): self.update_weights(X, y, learning_ratio, rht)
RECURSIVE UpdateLoop(_, _, _, _, _, _)
UpdateLoop(m, k, X, y, learning_ratio, rht) ==
    IF k <= 0 \/ m.err # "none" THEN m
    ELSE UpdateLoop(update_weights(m, X, y, learning_ratio, rht),
                    k - 1, X, y, learning_ratio, rht)

\* One iteration of the observer loop, for feature index i (the observer of
\* index i is attribute_observers[i + 1]; indices are created in order, so
\* the existing ones are 0 .. Len - 1).
Observe(obs, i, rht) ==
    LET kind == IF ~rht.nominal_none /\ i \in rht.nominal_attributes
                THEN "nominal" ELSE "numeric"
        all == IF i + 1 <= Len(obs) THEN obs ELSE Append(obs, NewObserver(kind))
    IN [all EXCEPT ![i + 1].n = @ + 1]

RECURSIVE ObserveLoop(_, _, _, _)
ObserveLoop(obs, i, n, rht) ==
    IF i >= n THEN obs ELSE ObserveLoop(Observe(obs, i, rht), i + 1, n, rht)

\* the observer loop at the end of the active learn_from_instance, reached
\* when no exception was raised before it
ObserveAll(m, X, rht) ==
    IF m.err # "none" THEN m
    ELSE [m EXCEPT !.self.attribute_observers = ObserveLoop(@, 0, Len(X), rht)]

LearningRatio(stats, rht) ==
    IF rht.learning_ratio_const THEN rht.learning_ratio_perceptron
    ELSE RDiv(rht.learning_ratio_perceptron,
              RAdd(One, RMul(stats.c, rht.learning_ratio_decay)))

\* (variant: the learning ratio is computed before the count is updated)
Active_learn_from_instance_early_ratio(m0, X, y, weight, rht) ==
    LET m1 == IF m0.self.perceptron_weight = None
              THEN Active_normalize_perceptron_weights(CreateWeights(m0, X, y))
              ELSE m0
        learning_ratio == LearningRatio(m1.self.stats, rht)
        m2 == [m1 EXCEPT !.self.stats = AddCount(@, weight)]
        m3 == AddTargets(m2, y, weight)
    IN ObserveAll(UpdateLoop(m3, Trunc(weight), X, y, learning_ratio, rht),
                  X, rht)

Active_learn_from_instance(m0, X, y, weight, rht) ==
    LET m1 == IF m0.self.perceptron_weight = None
              THEN Active_normalize_perceptron_weights(CreateWeights(m0, X, y))
              ELSE m0
        m2 == [m1 EXCEPT !.self.stats = AddCount(@, weight)]
        learning_ratio == LearningRatio(m2.self.stats, rht)
        m3 == AddTargets(m2, y, weight)
    IN ObserveAll(UpdateLoop(m3, Trunc(weight), X, y, learning_ratio, rht),
                  X, rht)

\* (variant: the learning ratio is computed before the count is updated)
Inactive_learn_from_instance_early_ratio(m0, X, y, weight, rht) ==
    LET m1 == IF m0.self.perceptron_weight = None
              THEN Inactive_normalize_perceptron_weights(CreateWeights(m0, X, y))
              ELSE m0
        learning_ratio == LearningRatio(m1.self.stats, rht)
        m2 == [m1 EXCEPT !.self.stats = AddCount(@, weight)]
        m3 == AddTargets(m2, y, weight)
    IN UpdateLoop(m3, Trunc(weight), X, y, learning_ratio, rht)

Inactive_learn_from_instance(m0, X, y, weight, rht) ==
    LET m1 == IF m0.self.perceptron_weight = None
              THEN Inactive_normalize_perceptron_weights(CreateWeights(m0, X, y))
              ELSE m0
        m2 == [m1 EXCEPT !.self.stats = AddCount(@, weight)]
        learning_ratio == LearningRatio(m2.self.stats, rht)
        m3 == AddTargets(m2, y, weight)
    IN UpdateLoop(m3, Trunc(weight), X, y, learning_ratio, rht)

\* node.learn_from_instance(...): the method of the node's class
learn_from_instance(m, X, y, weight, rht) ==
    IF IsActive(m.self.cls) THEN Active_learn_from_instance(m, X, y, weight, rht)
    ELSE Inactive_learn_from_instance(m, X, y, weight, rht)

\* total_weight of ActiveLearningNodePerceptronMultiTarget
total_weight(self) ==
    IF self.stats.keys = {} THEN [err |-> "none", val |-> Zero]
    ELSE IF 0 \in self.stats.keys THEN [err |-> "none", val |-> self.stats.c]
    ELSE [err |-> "KeyError", val |-> Zero]

\* ---------------------------------------------------------- constructors
\* super().__init__(initial_stats): the statistics, no attribute observer
BaseNode(cls, initial_stats) ==
    [NoNode EXCEPT !.cls = cls, !.initial_stats = initial_stats,
                   !.stats = initial_stats]

\* ActiveLearningNodePerceptronMultiTarget.__init__: the parent's matrix is
\* deep-copied into a new ndarray (parent = None: no parent_node)
Active_init(m, cls, initial_stats, parent, seed) ==
    LET self == [BaseNode(cls, initial_stats) EXCEPT
                    !.random_state = check_random_state(seed),
                    !.parent = parent]
    IN IF parent = None \/ m.nodes[parent].perceptron_weight = None
       THEN [self |-> self, heap |-> m.heap]
       ELSE [self |-> [self EXCEPT !.perceptron_weight = Len(m.heap) + 1],
             heap |-> Append(m.heap, m.heap[m.nodes[parent].perceptron_weight])]

\* InactiveLearningNodePerceptronMultiTarget.__init__: the attribute is bound
\* to the parent's ndarray itself
Inactive_init(m, cls, initial_stats, parent, seed) ==
    LET self == [BaseNode(cls, initial_stats) EXCEPT
                    !.random_state = check_random_state(seed),
                    !.parent = parent]
    IN IF parent = None THEN [self |-> self, heap |-> m.heap]
       ELSE [self |-> [self EXCEPT !.perceptron_weight =
                                       m.nodes[parent].perceptron_weight],
             heap |-> m.heap]

\* the Adaptive constructors: the Perceptron constructor, then the faded
\* errors of the perceptron and mean predictors are set to 0.0
ActiveAdaptive_init(m, cls, initial_stats, parent, seed) ==
    LET r == Active_init(m, cls, initial_stats, parent, seed)
    IN [r EXCEPT !.self.fMAE_M = <<Zero>>, !.self.fMAE_P = <<Zero>>]

InactiveAdaptive_init(m, cls, initial_stats, parent, seed) ==
    LET r == Inactive_init(m, cls, initial_stats, parent, seed)
    IN [r EXCEPT !.self.fMAE_M = <<Zero>>, !.self.fMAE_P = <<Zero>>]

New(m, cls, initial_stats, parent, seed) ==
    CASE cls = "ActivePerceptron" -> Active_init(m, cls, initial_stats, parent, seed)
      [] cls = "InactivePerceptron" -> Inactive_init(m, cls, initial_stats, parent, seed)
      [] cls = "ActiveAdaptive" -> ActiveAdaptive_init(m, cls, initial_stats, parent, seed)
      [] cls = "InactiveAdaptive" -> InactiveAdaptive_init(m, cls, initial_stats, parent, seed)

\* ---------------------------------------------------------------- actions
NoCall == [op |-> "none", node |-> 0, X |-> <<>>, y |-> <<>>, weight |-> Zero,
           outcome |-> "ok", ret |-> <<>>, updates |-> 0, rates |-> {}]

Constructed == {n \in NodeIds : nodes[n].cls # "none"}

\* the update_weights invocations the instances of h ask for
RECURSIVE Asked(_)
Asked(h) == IF h = <<>> THEN 0 ELSE Trunc(h[1][3]) + Asked(Tail(h))
RECURSIVE AskedUpTo(_)
AskedUpTo(n) == IF n = 0 THEN 0 ELSE Asked(hist[n]) + AskedUpTo(n - 1)

\* node 1 has been constructed, without a parent
Init ==
    /\ \E cls \in Classes, st \in InitialStats, seed \in Seeds :
          nodes = [n \in NodeIds |->
                      IF n = 1
                      THEN New([nodes |-> <<>>, heap |-> <<>>], cls, st, None, seed).self
                      ELSE NoNode]
    /\ heap = <<>>
    /\ regressor \in Rhts
    /\ hist = [n \in NodeIds |-> <<>>]
    /\ call = [NoCall EXCEPT !.op = "construct", !.node = 1]

\* node = Cls(initial_stats, parent_node, random_state): the next node is
\* constructed as the child of a constructed node
Construct(cls, initial_stats, parent, seed) ==
    /\ Cardinality(Constructed) < MaxNodes
    /\ parent \in Constructed
    /\ LET n == Cardinality(Constructed) + 1
           r == New([nodes |-> nodes, heap |-> heap], cls, initial_stats, parent, seed)
       IN /\ nodes' = [nodes EXCEPT ![n] = r.self]
          /\ heap' = r.heap
          /\ call' = [NoCall EXCEPT !.op = "construct", !.node = n]
    /\ UNCHANGED <<regressor, hist>>

\* the call of learn_from_instance on node n has ended as frame m
Ended(n, X, y, weight, m) ==
    /\ nodes' = [nodes EXCEPT ![n] = m.self]
    /\ heap' = m.heap
    /\ call' = [NoCall EXCEPT !.op = "learn", !.node = n, !.X = X, !.y = y,
                   !.weight = weight, !.updates = m.updates, !.rates = m.rates,
                   !.outcome = IF m.err = "none" THEN "ok" ELSE m.err]

\* nodes[n].learn_from_instance(X, y, weight, rht)
LearnFromInstance(n, X, y, weight) ==
    /\ n \in Constructed
    /\ Len(hist[n]) < MaxCalls
    /\ Asked(hist[n]) + Trunc(weight) <= MaxUpdates
    /\ Ended(n, X, y, weight,
             learn_from_instance(Frame(nodes[n], heap), X, y, weight, regressor))
    /\ hist' = [hist EXCEPT ![n] = Append(@, <<Len(X), Len(y), weight>>)]
    /\ UNCHANGED regressor

\* nodes[n].predict(X) on a normalized sample X
Predict(n, X) ==
    /\ n \in Constructed
    /\ LET r == IF IsActive(nodes[n].cls)
                THEN Active_predict(Frame(nodes[n], heap), X)
                ELSE Inactive_predict(Frame(nodes[n], heap), X)
       IN call' = [NoCall EXCEPT !.op = "predict", !.node = n, !.X = X,
                      !.ret = r.val,
                      !.outcome = IF r.err = "none" THEN "ok" ELSE r.err]
    /\ UNCHANGED <<nodes, heap, regressor, hist>>

\* nodes[n].total_weight(), of the active classes
TotalWeight(n) ==
    /\ n \in Constructed
    /\ IsActive(nodes[n].cls)
    /\ LET r == total_weight(nodes[n])
       IN call' = [NoCall EXCEPT !.op = "total_weight", !.node = n,
                      !.ret = <<r.val>>,
                      !.outcome = IF r.err = "none" THEN "ok" ELSE r.err]
    /\ UNCHANGED <<nodes, heap, regressor, hist>>

\* one node and the calls the regressor makes on it
Next ==
    \/ \E i \in Instances, weight \in Weights :
          LearnFromInstance(1, i.X, i.y, weight)
    \/ \E X \in Samples : Predict(1, X)
    \/ TotalWeight(1)

Spec == Init /\ [][Next]_vars

\* A tree that splits: node 1 starts with empty statistics, children are
\* constructed from constructed nodes with the seed of the tree, and every
\* node learns; MaxCalls and MaxUpdates bound the calls made on all nodes
\* together.
RECURSIVE CallsUpTo(_)
CallsUpTo(n) == IF n = 0 THEN 0 ELSE Len(hist[n]) + CallsUpTo(n - 1)

InitSplit ==
    /\ \E cls \in Classes, seed \in Seeds :
          nodes = [n \in NodeIds |->
                      IF n = 1
                      THEN New([nodes |-> <<>>, heap |-> <<>>],
                               cls, EmptyStats, None, seed).self
                      ELSE NoNode]
    /\ heap = <<>>
    /\ regressor \in Rhts
    /\ hist = [n \in NodeIds |-> <<>>]
    /\ call = [NoCall EXCEPT !.op = "construct", !.node = 1]

NextSplit ==
    \/ \E cls \in Classes, st \in InitialStats, p \in NodeIds :
          Construct(cls, st, p, nodes[1].random_state.seed)
    \/ \E n \in NodeIds, i \in Instances, weight \in Weights :
          /\ CallsUpTo(MaxNodes) < MaxCalls
          /\ AskedUpTo(MaxNodes) + Trunc(weight) <= MaxUpdates
          /\ LearnFromInstance(n, i.X, i.y, weight)

SpecSplit == InitSplit /\ [][NextSplit]_vars

\* An active node (1) and an inactive node (2) of the same predictor kind,
\* constructed with the same statistics and the same seed, are given the
\* same instances in turn.
InitTwin ==
    /\ \E adaptive \in BOOLEAN, st \in InitialStats, seed \in Seeds :
          nodes = [n \in NodeIds |->
             IF n = 1
             THEN New([nodes |-> <<>>, heap |-> <<>>],
                      IF adaptive THEN "ActiveAdaptive" ELSE "ActivePerceptron",
                      st, None, seed).self
             ELSE IF n = 2
             THEN New([nodes |-> <<>>, heap |-> <<>>],
                      IF adaptive THEN "InactiveAdaptive" ELSE "InactivePerceptron",
                      st, None, seed).self
             ELSE NoNode]
    /\ heap = <<>>
    /\ regressor \in Rhts
    /\ hist = [n \in NodeIds |-> <<>>]
    /\ call = [NoCall EXCEPT !.op = "construct", !.node = 2]

\* every instance is given to node 1, then to node 2
NextTwin ==
    \E n \in {1, 2}, i \in Instances, weight \in Weights :
       /\ n = 1 => Len(hist[2]) = Len(hist[1])
       /\ n = 2 => /\ Len(hist[2]) < Len(hist[1])
                   /\ i.X = call.X /\ i.y = call.y /\ weight = call.weight
       /\ LearnFromInstance(n, i.X, i.y, weight)

SpecTwin == InitTwin /\ [][NextTwin]_vars

\* ================================================================ claims
Matrix(n) == heap[nodes[n].perceptron_weight].w
RLeq(a, b) == a[1] * b[2] <= b[1] * a[2]
RECURSIVE SumWeights(_)
SumWeights(h) == IF h = <<>> THEN Zero ELSE RAdd(h[1][3], SumWeights(Tail(h)))
\* floor of a non-negative number
Floor(a) == CHOOSE k \in 0..a[1] : k * a[2] <= a[1] /\ a[1] < (k + 1) * a[2]
RECURSIVE RPow(_, _)
RPow(a, k) == IF k = 0 THEN One ELSE RMul(a, RPow(a, k - 1))
Count(st) == IF 0 \in st.keys THEN st.c ELSE Zero

C2_RowsNormalized ==
    \A a \in DOMAIN heap : \A i \in DOMAIN heap[a].w :
        heap[a].raw[i] # Zero => VSum(VAbs(heap[a].w[i])) = One

\* C3: a row whose absolute sum was exactly zero at its last normalization
\* was left as it was, all zeros, and holds no invalid value.
C3_ZeroRowLeftUnchanged ==
    \A a \in DOMAIN heap : \A i \in DOMAIN heap[a].w :
        heap[a].raw[i] = Zero => \A j \in DOMAIN heap[a].w[i] : heap[a].w[i][j] = Zero

\* the instance (X, y) has the dimensions of node n's matrix and statistics
WellFormed(n, X, y) ==
    /\ nodes[n].perceptron_weight # None
          => Len(Matrix(n)) = Len(y) /\ Len(Matrix(n)[1]) = Len(X) + 1
    /\ 1 \in nodes[n].stats.keys => Len(nodes[n].stats.s1) = Len(y)

\* the normalized prediction node n makes for X in a call (with the matrix the
\* call creates when the node has none) equals the normalized target
Matches(n, X, y) ==
    LET m0 == Frame(nodes[n], heap)
        m1 == IF nodes[n].perceptron_weight = None
              THEN Active_normalize_perceptron_weights(CreateWeights(m0, X, y))
              ELSE m0
        p == Matmul(m1, normalize_sample(regressor, X))
    IN p.err = "none" /\ p.val = normalize_target_value(regressor, y)

\* fMAE_P' is fMAE_P scaled by c (the float 0.0 broadcasts to the new shape)
ScaledBy(f2, c, f1) ==
    /\ Broadcastable(Len(f1), Len(f2)) /\ Len(f2) >= Len(f1)
    /\ \A i \in DOMAIN f2 : f2[i] = RMul(c, BAt(f1, i))

C5_MalformedInstanceRejected ==
    [][(/\ call'.op = "learn"
        /\ nodes[call'.node].perceptron_weight # None
        /\ \/ Len(Matrix(call'.node)) # Len(call'.y)
           \/ Len(Matrix(call'.node)[1]) # Len(call'.X) + 1)
          => /\ call'.outcome # "ok"
             /\ nodes' = nodes /\ heap' = heap]_vars

\* C6: total_weight() of a node constructed with empty statistics returns the
\* sum of the weights of the instances the node was given (0 when it was
\* given none), and no learn_from_instance call decreases the count.
C6_CountAdditivity ==
    [][/\ (call'.op = "total_weight"
             /\ nodes'[call'.node].initial_stats = EmptyStats)
            => /\ call'.outcome = "ok"
               /\ call'.ret = <<SumWeights(hist'[call'.node])>>
       /\ \A n \in Constructed :
             RLeq(Count(nodes[n].stats), Count(nodes'[n].stats))]_vars

C6_Witness ==
    /\ call.op = "total_weight" /\ call.outcome = "ok"
    /\ nodes[call.node].initial_stats = EmptyStats
    /\ Len(hist[call.node]) = 2
    /\ call.ret = <<SumWeights(hist[call.node])>>
    /\ call.ret # <<Rat(1, 1)>>

\* C7: a node constructed without a parent has no weight matrix and an
\* unused generator until its first learn_from_instance call; from that call
\* on it has a matrix of shape targets x (features + 1) of the first
\* instance, the generator has been used exactly once, and no call replaces
\* the matrix, changes its shape or uses the generator again.
C7_OneShotInitialization ==
    [][\A n \in NodeIds :
         (nodes'[n].cls # "none" /\ nodes'[n].parent = None) =>
            /\ hist'[n] = <<>> =>
                  /\ nodes'[n].perceptron_weight = None
                  /\ nodes'[n].random_state.calls = 0
            /\ hist'[n] # <<>> =>
                  /\ nodes'[n].perceptron_weight # None
                  /\ Len(heap'[nodes'[n].perceptron_weight].w) = hist'[n][1][2]
                  /\ \A i \in DOMAIN heap'[nodes'[n].perceptron_weight].w :
                        Len(heap'[nodes'[n].perceptron_weight].w[i]) = hist'[n][1][1] + 1
                  /\ nodes'[n].random_state.calls = 1
            /\ nodes[n].perceptron_weight # None =>
                  /\ nodes'[n].perceptron_weight = nodes[n].perceptron_weight
                  /\ nodes'[n].random_state = nodes[n].random_state]_vars

C7_Witness ==
    /\ nodes[1].parent = None /\ Len(hist[1]) = 2
    /\ hist[1][1][1] # hist[1][2][1]
    /\ call.op = "predict"
    /\ nodes[1].perceptron_weight # None
    /\ Len(Matrix(1)[1]) = hist[1][1][1] + 1
    /\ nodes[1].random_state.calls = 1

\* C8: predict on a node that has no weight matrix yet fails: it raises,
\* returns no vector, and leaves the node as it was.
C8_PredictUninitializedFails ==
    [][(call'.op = "predict" /\ nodes[call'.node].perceptron_weight = None)
          => /\ call'.outcome # "ok"
             /\ call'.ret = <<>>
             /\ nodes' = nodes /\ heap' = heap]_vars

C8_Witness ==
    /\ call.op = "predict" /\ call.outcome = "ValueError"
    /\ nodes[call.node].perceptron_weight = None

\* what learn_from_instance leaves in a node besides its observers
Core(nd, h) == [stats |-> nd.stats, fMAE_M |-> nd.fMAE_M, fMAE_P |-> nd.fMAE_P,
                random_state |-> nd.random_state,
                weights |-> IF nd.perceptron_weight = None THEN <<>>
                            ELSE h[nd.perceptron_weight].w]

\* C9: an inactive node (2) and an active node (1) of the same predictor
\* kind that start alike and are given the same instances end every call
\* alike (same exception if any, same statistics, weights, faded errors and
\* generator); the inactive node never has an attribute observer; the active
\* node, when the call returns, has an observer for every feature index of
\* the instance, each updated exactly once by the call, the others untouched.
C9_InactiveActiveEquivalence ==
    [][/\ (call'.op = "learn" /\ call'.node = 2) =>
            /\ Core(nodes'[1], heap') = Core(nodes'[2], heap')
            /\ call'.outcome = call.outcome
            /\ nodes'[2].attribute_observers = <<>>
       /\ (call'.op = "learn" /\ call'.node = 1) =>
            LET obs == nodes[1].attribute_observers
                obs2 == nodes'[1].attribute_observers
                k == Len(call'.X)
            IN /\ call'.outcome # "ok" => obs2 = obs
               /\ call'.outcome = "ok" =>
                     /\ Len(obs2) = IF k > Len(obs) THEN k ELSE Len(obs)
                     /\ \A i \in DOMAIN obs2 :
                           obs2[i].n = (IF i <= Len(obs) THEN obs[i].n ELSE 0)
                                       + (IF i <= k THEN 1 ELSE 0)]_vars

C9_Witness ==
    /\ call.op = "learn" /\ call.node = 2 /\ call.outcome = "ok"
    /\ call.updates >= 1
    /\ Len(hist[1]) = 2 /\ hist[2] = hist[1]
    /\ nodes[1].perceptron_weight # nodes[2].perceptron_weight
    /\ Matrix(1) = Matrix(2)
    /\ Matrix(1) # uniform(check_random_state(nodes[1].random_state.seed),
                            Len(Matrix(1)), Len(Matrix(1)[1]))
    /\ nodes[2].attribute_observers = <<>>
    /\ Len(nodes[1].attribute_observers) >= 1
    /\ nodes[1].attribute_observers[1].n = 2

\* C10: a learn_from_instance call with an instance of the node's dimensions
\* and weight w returns, makes exactly floor(w) update_weights invocations,
\* adds the full w, w * y and w * y * y to the statistics, and with a
\* non-constant schedule gives every invocation the ratio
\* learning_ratio_perceptron / (1 + count * learning_ratio_decay) of the
\* count that already includes w.
C10_TruncationAndRate ==
    [][(call'.op = "learn" /\ WellFormed(call'.node, call'.X, call'.y)) =>
         LET w == call'.weight
             y == call'.y
             st == nodes[call'.node].stats
             st2 == nodes'[call'.node].stats
             wy == VScale(w, y)
         IN /\ call'.outcome = "ok"
            /\ call'.updates = Floor(w)
            /\ st2.keys = {0, 1, 2}
            /\ st2.c = RAdd(Count(st), w)
            /\ st2.s1 = IF 1 \in st.keys THEN BAdd(st.s1, wy) ELSE wy
            /\ st2.s2 = IF 2 \in st.keys THEN BAdd(st.s2, BMul(wy, y))
                        ELSE BMul(wy, y)
            /\ call'.rates \subseteq
                 {IF regressor.learning_ratio_const
                  THEN regressor.learning_ratio_perceptron
                  ELSE RDiv(regressor.learning_ratio_perceptron,
                            RAdd(One, RMul(RAdd(Count(st), w),
                                           regressor.learning_ratio_decay)))}
            /\ (Floor(w) >= 1) = (call'.rates # {})]_vars

C10_Witness ==
    /\ call.op = "learn" /\ call.outcome = "ok"
    /\ call.weight = Rat(3, 2) /\ call.updates = 1
    /\ ~regressor.learning_ratio_const
    /\ Len(hist[call.node]) = 2
    /\ nodes[call.node].stats.c = SumWeights(hist[call.node])
    /\ call.rates = {RDiv(One, RAdd(One, nodes[call.node].stats.c))}

====
